---- MODULE Spec2Model ----
(***************************************************************************)
(* Model of scripts/fix_compile_commands.py: the script reads a JSON       *)
(* compilation database, deletes the GCC-only flags from every entry's     *)
(* `command`, writes a backup when it overwrites its input, and writes the *)
(* result.  Command lines are sequences of one-character strings, so the   *)
(* substring test, str.replace and split/join are computed character by    *)
(* character as Python computes them.                                      *)
(***************************************************************************)
EXTENDS Integers, Sequences, FiniteSets, TLC

VARIABLES
    pc,             \* phase of the run
    caller,         \* "main": the script's __main__ block; "api": a direct call
    output_arg,     \* the output_file argument as passed (None or a path)
    output_file,    \* the output path after the default of lines 13-14
    fs,             \* the filesystem: path -> file
    commands,       \* the parsed JSON value held in memory
    modified_count, \* the counter of line 26
    exit_status,    \* -1 while running, then the process exit status
    original,       \* history: the value as json.load returned it
    passes,         \* history: number of times the rewrite loop has run
    log,            \* history: the file operations performed, in order
    fs0             \* history: the filesystem when the run started

vars == <<pc, caller, output_arg, output_file, fs, commands, modified_count,
          exit_status, original, passes, log, fs0>>

----------------------------------------------------------------------------
(* Bounds of the model *)

MaxEntries == 2
MaxPieces == 3
MaxPasses == 2

----------------------------------------------------------------------------
(* Strings *)

\* '-mno-direct-extern-access'
Flag == << "-", "m", "n", "o", "-", "d", "i", "r", "e", "c", "t", "-",
           "e", "x", "t", "e", "r", "n", "-", "a", "c", "c", "e", "s", "s" >>

flags_to_remove == << Flag >>

\* the characters str.split() with no argument treats as separators
Whitespace == {" ", "\t"}

StartsWith(s, i, f) ==
    /\ i + Len(f) - 1 <= Len(s)
    /\ SubSeq(s, i, i + Len(f) - 1) = f

\* `flag in s` for strings
Contains(s, f) == \E i \in 1..(Len(s) - Len(f) + 1) : StartsWith(s, i, f)

RECURSIVE ReplaceFrom(_, _, _)
ReplaceFrom(s, f, i) ==
    IF i > Len(s) THEN << >>
    ELSE IF StartsWith(s, i, f) THEN ReplaceFrom(s, f, i + Len(f))
    ELSE << s[i] >> \o ReplaceFrom(s, f, i + 1)

\* s.replace(f, ''): one left-to-right pass over non-overlapping occurrences
replace(s, f) == ReplaceFrom(s, f, 1)

RECURSIVE SplitFrom(_, _, _)
SplitFrom(s, i, cur) ==
    IF i > Len(s) THEN (IF cur = << >> THEN << >> ELSE << cur >>)
    ELSE IF s[i] \in Whitespace
         THEN (IF cur = << >> THEN << >> ELSE << cur >>) \o SplitFrom(s, i + 1, << >>)
    ELSE SplitFrom(s, i + 1, Append(cur, s[i]))

\* s.split(): the maximal runs of non-whitespace characters
split(s) == SplitFrom(s, 1, << >>)

RECURSIVE join(_, _)
join(sep, toks) ==
    IF toks = << >> THEN << >>
    ELSE IF Len(toks) = 1 THEN toks[1]
    ELSE toks[1] \o sep \o join(sep, Tail(toks))

CleanUpNone(s) == s

CleanUpSpacesOnly(s) ==
    LET RECURSIVE Go(_, _)
        Go(i, prevSpace) ==
            IF i > Len(s) THEN << >>
            ELSE IF s[i] = " " /\ prevSpace THEN Go(i + 1, TRUE)
            ELSE << s[i] >> \o Go(i + 1, s[i] = " ")
    IN Go(1, FALSE)

\* ' '.join(modified_command.split())
CleanUp(s) == join(<< " " >>, split(s))

\* lines 34-36: one flag
RemoveFlag(cmd, flag) ==
    IF Contains(cmd, flag) THEN CleanUp(replace(cmd, flag)) ELSE cmd

RECURSIVE RemoveFlags(_, _)
\* lines 33-36: every flag of the list, in order
RemoveFlags(cmd, flags) ==
    IF flags = << >> THEN cmd
    ELSE RemoveFlags(RemoveFlag(cmd, Head(flags)), Tail(flags))

\* a run of two or more characters of the set S in s
HasRun(s, S) == \E i \in 1..(Len(s) - 1) : s[i] \in S /\ s[i + 1] \in S

----------------------------------------------------------------------------
(* JSON values *)

\* A member of the top-level value.  ekind: "object" or "nonobject" (a
\* string, number, list, or a key of a top-level object).  ckind, the type of
\* the `command` value: "str", "scalar" (number, null, boolean) or
\* "container" (list or object; elemIsFlag: the flag is an element or key).
\* file: the value of the entry's other key, a number naming a source file
\* (0: the key is absent).
Obj(c, f) == [ekind |-> "object", hasCommand |-> TRUE, ckind |-> "str",
              command |-> c, elemIsFlag |-> FALSE, file |-> f]

NonObject == [ekind |-> "nonobject", hasCommand |-> FALSE, ckind |-> "str",
              command |-> << >>, elemIsFlag |-> FALSE, file |-> 0]

NoCommand == [Obj(<< >>, 1) EXCEPT !.hasCommand = FALSE]
ScalarCommand == [Obj(<< >>, 1) EXCEPT !.ckind = "scalar"]
ListCommand == [Obj(<< >>, 1) EXCEPT !.ckind = "container"]
ListWithFlag == [Obj(<< >>, 1) EXCEPT !.ckind = "container", !.elemIsFlag = TRUE]

\* kind: "array", "object", "string" or "scalar"; items: what iterating yields
Value(k, items) == [kind |-> k, items |-> items]

NullValue == Value("scalar", << >>)

WellFormedEntry(e) == e.ekind = "object" /\ e.hasCommand /\ e.ckind = "str"

\* an array of objects each holding a string `command`
WellFormed(v) ==
    /\ v.kind = "array"
    /\ \A i \in 1..Len(v.items) : WellFormedEntry(v.items[i])

----------------------------------------------------------------------------
(* Files *)

Path(stem, suffix) == [stem |-> stem, suffix |-> suffix]

\* Path('build/compile_commands.json')
compile_commands_path == Path("build/compile_commands", ".json")

OtherPath == Path("build/fixed", ".json")

\* Path.with_suffix
with_suffix(p, suffix) == [p EXCEPT !.suffix = suffix]

backup_file == with_suffix(compile_commands_path, ".json.backup")

None == Path("None", "")

Paths == {compile_commands_path, OtherPath, backup_file}

File(state, indent, v) == [state |-> state, indent |-> indent, value |-> v]

NoFile == File("missing", 0, NullValue)
Garbage == File("notjson", 0, NullValue)
Partial == File("partial", 0, NullValue)

\* json.dump(v, f, indent=i)
dump(v, i) == File("json", i, v)

Parses(f) == f.state = "json"

\* json.load
load(f) == f.value

Event(op, role, path, ok) == [op |-> op, role |-> role, path |-> path, ok |-> ok]

----------------------------------------------------------------------------
(* The rewrite loop, lines 28-40 *)

\* entry['command'] (line 29), `flag in` (line 34) or .replace (line 35) raises
EntryRaises(e) ==
    \/ e.ekind # "object"                         \* TypeError: not a mapping
    \/ ~e.hasCommand                              \* KeyError: 'command'
    \/ e.ckind = "scalar"                         \* TypeError: not iterable
    \/ e.ckind = "container" /\ e.elemIsFlag      \* AttributeError: no replace

ChangedAlways(modified_command, original_command) == TRUE

\* line 38
Changed(modified_command, original_command) == modified_command # original_command

StoreOnlyCommand(e, c) == [e EXCEPT !.command = c, !.file = 0]

\* line 39
Store(e, c) == [e EXCEPT !.command = c]

RECURSIVE LoopFrom(_, _, _)
\* done: the entries already visited; rest: those still to visit.  An
\* exception leaves the loop with the visited entries already mutated.
LoopFrom(done, rest, count) ==
    IF rest = << >> THEN [entries |-> done, count |-> count, raised |-> FALSE]
    ELSE LET e == Head(rest) IN
         IF EntryRaises(e)
         THEN [entries |-> done \o rest, count |-> count, raised |-> TRUE]
         ELSE LET original_command == e.command
                  modified_command == RemoveFlags(original_command, flags_to_remove)
              IN IF Changed(modified_command, original_command)
                 THEN LoopFrom(Append(done, Store(e, modified_command)),
                               Tail(rest), count + 1)
                 ELSE LoopFrom(Append(done, e), Tail(rest), count)

\* lines 26-40 on the members of the loaded value
RewriteLoop(items) == LoopFrom(<< >>, items, 0)

----------------------------------------------------------------------------
(* Inputs *)

FlagHead == SubSeq(Flag, 1, 12)          \* '-mno-direct-'
FlagTail == SubSeq(Flag, 13, Len(Flag))  \* 'extern-access'

Pieces == { << " " >>, << "\t" >>, FlagHead, FlagTail, Flag }

RECURSIVE CmdsOf(_)
\* the command lines made of exactly n pieces
CmdsOf(n) ==
    IF n = 0 THEN { << >> }
    ELSE { p \o c : p \in Pieces, c \in CmdsOf(n - 1) }

RECURSIVE EntrySeqs(_, _)
\* the sequences of len well-formed entries made of at most budget pieces,
\* each entry naming a source file of its own
EntrySeqs(len, budget) ==
    IF len = 0 THEN { << >> }
    ELSE UNION { { << Obj(c, len) >> \o r :
                     c \in CmdsOf(k), r \in EntrySeqs(len - 1, budget - k) }
                 : k \in 0..budget }

\* 'gcc -O2 -mno-direct-extern-access -Wall file.c'
ExampleWithFlag ==
    << "g", "c", "c", " ", "-", "O", "2", " " >> \o Flag \o
    << " ", "-", "W", "a", "l", "l", " ", "f", "i", "l", "e", ".", "c" >>

\* 'gcc -O2 -Wall file.c'
ExampleWithoutFlag ==
    << "g", "c", "c", " ", "-", "O", "2", " ",
       "-", "W", "a", "l", "l", " ", "f", "i", "l", "e", ".", "c" >>

\* 'gcc  -O2 -Wall file.c': a run of two spaces and no flag
ExampleRunOnly ==
    << "g", "c", "c", " ", " ", "-", "O", "2", " ",
       "-", "W", "a", "l", "l", " ", "f", "i", "l", "e", ".", "c" >>

\* 'gcc  -O2 \t-mno-direct-extern-access': runs of whitespace and the flag
ExampleRunAndFlag ==
    << "g", "c", "c", " ", " ", "-", "O", "2", " ", "\t" >> \o Flag

WellFormedValues ==
    { Value("array", es) :
        es \in UNION { EntrySeqs(n, MaxPieces) : n \in 0..MaxEntries } }
    \cup { Value("array", << Obj(ExampleWithFlag, 1) >>),
           Value("array", << Obj(ExampleWithoutFlag, 1) >>),
           Value("array", << Obj(ExampleWithoutFlag, 1), Obj(ExampleWithFlag, 2) >>),
           Value("array", << Obj(ExampleRunAndFlag, 1), Obj(ExampleRunOnly, 2) >>) }

\* valid JSON that is not an array of objects with a string `command`
MalformedValues ==
    { NullValue,
      Value("object", << >>), Value("object", << NonObject >>),
      Value("string", << >>), Value("string", << NonObject >>),
      Value("array", << NonObject >>),
      Value("array", << NoCommand >>),
      Value("array", << ScalarCommand >>),
      Value("array", << ListCommand >>),
      Value("array", << ListWithFlag >>),
      Value("array", << Obj(ExampleWithFlag, 1), NoCommand >>) }

InputFiles ==
    { NoFile, Garbage }
    \cup { dump(v, 4) : v \in WellFormedValues \cup MalformedValues }

OldBackup == dump(Value("array", << Obj(FlagTail, 1) >>), 2)

----------------------------------------------------------------------------
(* The run *)

Init ==
    /\ caller \in {"main", "api"}
    /\ output_arg \in (IF caller = "main" THEN {None}
                       ELSE {compile_commands_path, OtherPath})
    /\ pc = (IF caller = "main" THEN "CheckExists" ELSE "Load")
    /\ output_file = output_arg
    /\ \E in \in InputFiles, bak \in {NoFile, OldBackup} :
         fs = [p \in Paths |-> IF p = compile_commands_path THEN in
                               ELSE IF p = backup_file THEN bak
                               ELSE NoFile]
    /\ fs0 = fs
    /\ commands = NullValue
    /\ modified_count = 0
    /\ exit_status = -1
    /\ original = NullValue
    /\ passes = 0
    /\ log = << >>

Fail ==
    /\ pc' = "Failed"
    /\ exit_status' = 1

CheckExistsSkipped ==
    /\ pc = "CheckExists"
    /\ pc' = "Load"
    /\ UNCHANGED <<fs0, caller, output_arg, output_file, fs, commands, modified_count,
                   exit_status, original, passes, log>>

\* lines 58-64: the __main__ block
CheckExists ==
    /\ pc = "CheckExists"
    /\ IF fs[compile_commands_path].state = "missing"
       THEN Fail                       \* sys.exit(1)
       ELSE pc' = "Load" /\ UNCHANGED exit_status
    /\ UNCHANGED <<fs0, caller, output_arg, output_file, fs, commands, modified_count,
                   original, passes, log>>

\* lines 13-23
Load ==
    /\ pc = "Load"
    /\ output_file' = (IF output_arg = None THEN compile_commands_path ELSE output_arg)
    /\ LET f == fs[compile_commands_path] IN
       /\ log' = Append(log, Event("read", "input", compile_commands_path,
                                   f.state # "missing"))
       /\ IF Parses(f)
          THEN /\ commands' = load(f)
               /\ original' = load(f)
               /\ pc' = "Rewrite"
               /\ UNCHANGED exit_status
          ELSE /\ Fail                 \* FileNotFoundError or JSONDecodeError
               /\ UNCHANGED <<commands, original>>
    /\ UNCHANGED <<fs0, caller, output_arg, fs, modified_count, passes>>

NeedsBackupAlways(out, in) == TRUE

\* line 45
NeedsBackup(out, in) == out = in

\* lines 25-42
Rewrite ==
    /\ pc = "Rewrite"
    /\ passes' = passes + 1
    /\ IF commands.kind = "scalar"
       THEN /\ Fail                    \* len() raises TypeError
            /\ UNCHANGED <<commands, modified_count>>
       ELSE LET r == RewriteLoop(commands.items) IN
            /\ commands' = [commands EXCEPT !.items = r.entries]
            /\ modified_count' = r.count
            /\ IF r.raised
               THEN Fail
               ELSE /\ pc' = (IF NeedsBackup(output_file, compile_commands_path)
                              THEN "Backup" ELSE "Save")
                    /\ UNCHANGED exit_status
    /\ UNCHANGED <<fs0, caller, output_arg, output_file, fs, original, log>>

\* lines 46-49
Backup ==
    /\ pc = "Backup"
    /\ fs' = [fs EXCEPT ![backup_file] = dump(commands, 2)]
    /\ log' = Append(log, Event("write", "backup", backup_file, TRUE))
    /\ pc' = "Save"
    /\ UNCHANGED <<fs0, caller, output_arg, output_file, commands, modified_count,
                   exit_status, original, passes>>

\* lines 48-49 raising OSError: open fails, or the write stops part-way
BackupFails ==
    /\ pc = "Backup"
    /\ \E left \in {fs[backup_file], Partial} :
         fs' = [fs EXCEPT ![backup_file] = left]
    /\ log' = Append(log, Event("write", "backup", backup_file, FALSE))
    /\ Fail
    /\ UNCHANGED <<fs0, caller, output_arg, output_file, commands, modified_count,
                   original, passes>>

\* lines 51-55
Save ==
    /\ pc = "Save"
    /\ fs' = [fs EXCEPT ![output_file] = dump(commands, 2)]
    /\ log' = Append(log, Event("write", "output", output_file, TRUE))
    /\ pc' = "Done"
    /\ exit_status' = 0
    /\ UNCHANGED <<fs0, caller, output_arg, output_file, commands, modified_count,
                   original, passes>>

SaveFailsRollback ==
    /\ pc = "Save"
    /\ fs' = [fs EXCEPT ![output_file] = Partial, ![backup_file] = NoFile]
    /\ log' = Append(log, Event("write", "output", output_file, FALSE))
    /\ Fail
    /\ UNCHANGED <<fs0, caller, output_arg, output_file, commands, modified_count,
                   original, passes>>

\* lines 52-53 raising OSError: open fails, or the write stops part-way
SaveFails ==
    /\ pc = "Save"
    /\ \E left \in {fs[output_file], Partial} :
         fs' = [fs EXCEPT ![output_file] = left]
    /\ log' = Append(log, Event("write", "output", output_file, FALSE))
    /\ Fail
    /\ UNCHANGED <<fs0, caller, output_arg, output_file, commands, modified_count,
                   original, passes>>

Next ==
    \/ CheckExists
    \/ Load
    \/ Rewrite
    \/ Backup
    \/ BackupFails
    \/ Save
    \/ SaveFails

Spec == Init /\ [][Next]_vars

----------------------------------------------------------------------------
(* The rewrite step applied repeatedly to one entry sequence *)

InitRewrite ==
    /\ caller = "api"
    /\ output_arg = None
    /\ output_file = None
    /\ pc = "Rewrite"
    /\ fs = [p \in Paths |-> NoFile]
    /\ fs0 = fs
    /\ commands \in WellFormedValues
    /\ original = commands
    /\ modified_count = 0
    /\ exit_status = -1
    /\ passes = 0
    /\ log = << >>

\* lines 26-40, run on the entries the previous pass left
RewriteAgain ==
    /\ pc = "Rewrite"
    /\ passes < MaxPasses
    /\ LET r == RewriteLoop(commands.items) IN
       /\ commands' = [commands EXCEPT !.items = r.entries]
       /\ modified_count' = r.count
    /\ passes' = passes + 1
    /\ UNCHANGED <<fs0, caller, output_arg, output_file, fs, pc, exit_status,
                   original, log>>

NextRewrite == RewriteAgain

SpecRewrite == InitRewrite /\ [][NextRewrite]_vars

----------------------------------------------------------------------------
(* Properties *)

Items(v) == v.items
Cmd(v, i) == v.items[i].command

LogHas(op, role, ok) ==
    \E i \in 1..Len(log) : log[i].op = op /\ log[i].role = role /\ log[i].ok = ok

BackupWritten == LogHas("write", "backup", TRUE)

\* the flag occurs in s with a space right before and right after it
FlagBetweenSpaces(s) ==
    \E i \in 2..(Len(s) - Len(Flag)) :
        /\ s[i - 1] = " "
        /\ StartsWith(s, i, Flag)
        /\ s[i + Len(Flag)] = " "

\* C1: whenever the output path equals the input path and the backup has been
\* written, the parsed content of the backup file equals the entry sequence
\* as it was loaded, before any command was rewritten.
C1_BackupFidelity ==
    (output_file = compile_commands_path /\ BackupWritten)
        => (Parses(fs[backup_file]) /\ load(fs[backup_file]) = original)

\* C2: applying the rewrite step twice gives the same entries as applying it
\* once, for every entry sequence.
C2_Idempotent ==
    passes = 2 => Items(commands) = RewriteLoop(Items(original)).entries

\* C3: a run whose input is not valid JSON, or is not an array of objects
\* each holding a string `command`, never reaches Done.
C3_MalformedRejected ==
    pc = "Done" => (Parses(fs0[compile_commands_path]) /\ WellFormed(original))

\* C4: when the input path does not exist at the start of a run of the
\* script, no file is read, created or written in any state of the run, and
\* once the existence check has run the process has ended with exit status 1.
C4_MissingInput ==
    (caller = "main" /\ fs0[compile_commands_path].state = "missing")
        => /\ fs = fs0
           /\ log = << >>
           /\ pc \in {"CheckExists", "Failed"}
           /\ pc = "Failed" => exit_status = 1
           /\ pc = "CheckExists" => exit_status = -1

C4_Witness ==
    /\ caller = "main"
    /\ fs0[compile_commands_path].state = "missing"
    /\ fs0[backup_file] = OldBackup
    /\ pc = "Failed"

\* v and w have the same members in the same order, up to their `command`
SameFrame(v, w) ==
    /\ v.kind = w.kind
    /\ Len(v.items) = Len(w.items)
    /\ \A i \in 1..Len(v.items) :
         [v.items[i] EXCEPT !.command = << >>] = [w.items[i] EXCEPT !.command = << >>]

\* C5: after the rewrite step the entry sequence has the length and order of
\* the loaded one and every key other than `command` keeps its value, in
\* memory and in the output file once it is written.
C5_Frame ==
    /\ passes >= 1 => SameFrame(commands, original)
    /\ pc = "Done" => SameFrame(load(fs[output_file]), original)

C5_Witness ==
    /\ pc = "Done"
    /\ Len(Items(original)) = 2
    /\ Cmd(original, 1) # Cmd(commands, 1)
    /\ Cmd(original, 2) # Cmd(commands, 2)
    /\ original.items[1].file # original.items[2].file

\* C6: once the rewrite step has run, modified_count is the number of
\* entries whose `command` differs from the loaded one.
C6_CountAccurate ==
    passes >= 1 =>
        modified_count =
            Cardinality({ i \in 1..Len(Items(original)) : Cmd(commands, i) # Cmd(original, i) })

C6_Witness ==
    /\ pc = "Save"
    /\ Len(Items(original)) = 2
    /\ modified_count = 1
    /\ Cmd(commands, 1) = Cmd(original, 1)

\* C7: every command that held a listed flag between two spaces holds no
\* run of two or more spaces after the rewrite step.
C7_NoDoubleSpace ==
    (passes >= 1 /\ WellFormed(original)) =>
        \A i \in 1..Len(Items(original)) :
            FlagBetweenSpaces(Cmd(original, i)) => ~HasRun(Cmd(commands, i), {" "})

C7_Witness ==
    /\ passes >= 1
    /\ WellFormed(original)
    /\ \E i \in 1..Len(Items(original)) :
         /\ FlagBetweenSpaces(Cmd(original, i))
         /\ Cmd(original, i) # ExampleWithFlag
         /\ ~HasRun(Cmd(commands, i), {" "})

\* C8 as stated: after the rewrite step no entry's command holds a run of
\* two or more whitespace characters, whether or not it held a listed flag.
C8_AllNormalized ==
    (passes >= 1 /\ WellFormed(original)) =>
        \A i \in 1..Len(Items(original)) : ~HasRun(Cmd(commands, i), Whitespace)

\* C8 as amended: after the rewrite step every command that held a listed
\* flag holds no run of two or more whitespace characters, and every command
\* that held none is unchanged.
C8_NormalizedWhenFlag ==
    (passes >= 1 /\ WellFormed(original)) =>
        \A i \in 1..Len(Items(original)) :
            IF \E k \in 1..Len(flags_to_remove) : Contains(Cmd(original, i), flags_to_remove[k])
            THEN ~HasRun(Cmd(commands, i), Whitespace)
            ELSE Cmd(commands, i) = Cmd(original, i)

C8_Witness ==
    /\ passes >= 1
    /\ WellFormed(original)
    /\ Len(Items(original)) = 2
    /\ Contains(Cmd(original, 1), Flag)
    /\ HasRun(Cmd(original, 1), Whitespace)
    /\ ~Contains(Cmd(original, 2), Flag)
    /\ HasRun(Cmd(commands, 2), Whitespace)

PhaseSteps ==
    { <<"CheckExists", "Load">>, <<"Load", "Rewrite">>, <<"Rewrite", "Backup">>,
      <<"Rewrite", "Save">>, <<"Backup", "Save">>, <<"Save", "Done">> }
    \cup { <<p, "Failed">> : p \in {"CheckExists", "Load", "Rewrite", "Backup", "Save"} }

WritesInOrder ==
    \A j \in 1..Len(log) :
        (log[j].op = "write" /\ log[j].role = "output") =>
            /\ \A i \in 1..Len(log) : (log[i].role = "output") => i = j
            /\ output_file = compile_commands_path =>
                 \E i \in 1..(j - 1) : log[i] = Event("write", "backup", backup_file, TRUE)

\* C9: every step moves to a later phase of CheckExists, Load, Rewrite,
\* Backup, Save, Done, or to Failed; Backup is entered only when the output
\* path equals the input path and then Save is not entered from Rewrite; a
\* run that reaches Done has written the backup if and only if the output
\* path equals the input path; the output write begins only after the
\* backup write has completed.
C9_PhaseOrder ==
    /\ [][ /\ <<pc, pc'>> \in PhaseSteps
           /\ pc' = "Backup" => output_file = compile_commands_path
           /\ (pc = "Rewrite" /\ pc' = "Save") => output_file # compile_commands_path
         ]_vars
    /\ [](LogHas("write", "backup", TRUE) \/ LogHas("write", "backup", FALSE)
             => output_file = compile_commands_path)
    /\ [](pc = "Done" => (BackupWritten <=> output_file = compile_commands_path))
    /\ []WritesInOrder

C9_Witness ==
    /\ pc = "Done"
    /\ caller = "main"
    /\ Len(log) = 3
    /\ log[2] = Event("write", "backup", backup_file, TRUE)
    /\ log[3] = Event("write", "output", compile_commands_path, TRUE)

OutputWriteFailedAfterBackup ==
    /\ BackupWritten
    /\ LogHas("write", "output", FALSE)

\* C10: once the output write has failed after the backup was written, the
\* run is in Failed with exit status 1, the backup file holds exactly what
\* was written to it, and the output write was attempted once.
C10_NoRollback ==
    OutputWriteFailedAfterBackup =>
        /\ pc = "Failed"
        /\ exit_status = 1
        /\ fs[backup_file] = dump(commands, 2)
        /\ Len(log) = 3

C10_Witness ==
    /\ OutputWriteFailedAfterBackup
    /\ fs[compile_commands_path] = Partial
    /\ fs0[backup_file] = OldBackup

====
